---- MODULE Spec2Model ----
(***************************************************************************)
(* Model of the PeaceDatabase benchmark tools (src/tools):                 *)
(*   - db_bench.py: generate_documents, the three engine clients and the   *)
(*     sweep of main / run_engine_bench;                                   *)
(*   - bench_runner.py: run_bench, _aggregate_results, save_csv,           *)
(*     plot_results and main;                                              *)
(*   - prepare_news_for_upload.py: iter_records; convert.py.               *)
(* Each component has its own specification (SpecGen, SpecBench, SpecAgg,  *)
(* SpecOrder, SpecRunner, SpecCli, SpecPlot, SpecIngest); the variables of *)
(* the other components stay at rest.                                      *)
(***************************************************************************)
EXTENDS Integers, Sequences, FiniteSets, TLC

VARIABLES
    moduleRnd,   \* state of the module-level generator `random` (db_bench.py:6)
    lastCall,    \* arguments of the latest generate_documents call, or NoCall
    genResult,   \* what that call returned
    refCall,     \* an earlier generate_documents call kept for comparison: arguments and result
    probe,       \* two loop indexes of generate_documents and the ids built for them
    \* db_bench.py main and the backends it drives
    pc,          \* position of main: "start", "loop", "done" or "crashed"
    args,        \* the parsed command line: n and seed
    docs,        \* the documents generated at the start of main
    engIdx,      \* index of the engine the for loop of main is at
    phase,       \* engine -> how far run_engine_bench got: Unprepared, Prepared, Inserted, Read
    dbExists,    \* engine -> the backend has the database / collection
    store,       \* engine -> ids of the documents the backend holds
    insertRep,   \* engine -> what happened in its bulk_insert call
    readRep,     \* engine -> what happened in its bulk_read call
    raised,      \* the exception that left main, or NoExc
    all_results, \* the list all_results of main
    csv,         \* the rows written by save_results_csv, or NotWritten
    calls,       \* the adapter calls made so far, in order
    \* bench_runner.py
    results,     \* the results list of the response of the bench run
    aggOut,      \* what _aggregate_results returned (with its buckets), or NotRun
    runner,      \* the bench run: position, request parameters, position of the server
    trialLog,    \* the trials the server ran, in order
    \* bench_runner.py main
    argScales,   \* the --scales argument, a string of characters
    cli,         \* main: position, parsed scales, formats from the API, exit code, stderr
    requests,    \* the requests sent to the server so far, in order
    files,       \* the files written under --out so far
    data,        \* the response of the bench run (a dict with results or Results)
    csvRows,     \* the rows save_csv wrote to results.csv after the header
    \* prepare_news_for_upload.py iter_records and convert.py
    fileLines,   \* the lines of the dataset file
    reader,      \* iter_records: position (fast path, line loop, end) and line index
    yielded,     \* what iter_records yielded so far, each with the line it came from
    conv         \* convert.py: line index, the list data, the warnings printed

genVars == <<moduleRnd, lastCall, genResult, refCall, probe>>

benchVars == <<pc, args, docs, engIdx, phase, dbExists, store, insertRep, readRep,
               raised, all_results, csv, calls>>

aggVars == <<results, aggOut>>

runnerVars == <<runner, trialLog>>

cliVars == <<argScales, cli, requests, files, data, csvRows>>

ingestVars == <<fileLines, reader, yielded, conv>>

vars == <<genVars, benchVars, aggVars, runnerVars, cliVars, ingestVars>>

GenRest == <<benchVars, aggVars, runnerVars, cliVars, ingestVars>>
BenchRest == <<genVars, aggVars, runnerVars, cliVars, ingestVars>>
AggRest == <<genVars, benchVars, runnerVars, cliVars, ingestVars>>
RunnerRest == <<genVars, benchVars, cliVars, ingestVars>>
CliRest == <<genVars, benchVars, results, runnerVars, ingestVars>>
IngestRest == <<genVars, benchVars, aggVars, runnerVars, cliVars>>

------------------------------------------------------------------------------
(* Bounds of the model.                                                    *)

MaxSize == 2      \* generate_documents is called with n in -1..MaxSize
MaxSeed == 1      \* seeds 0..MaxSeed
RndMod  == 7      \* number of states of the modelled pseudo-random generator
MaxResults == 3   \* length of the results list handed to _aggregate_results
MaxWarmup == 1    \* --warmup in 0..MaxWarmup
MaxIterations == 2 \* --iterations in 0..MaxIterations
MaxScalesLen == 3 \* number of characters of the --scales argument
MaxRows == 2      \* length of the results list of a bench response
MaxLines == 2     \* number of lines of the dataset file

(* Program constants.                                                      *)
IdWidth == 6      \* f"bench-{i:06d}"

Sizes == (-1)..MaxSize
Seeds == 0..MaxSeed
NoCall == [n |-> -2, seed |-> 0]
NoResult == [kind |-> "none", docs |-> <<>>]

(* Loop indexes for which the id format is probed: small ones and the ones *)
(* around the six-digit limit.                                             *)
ProbeIdx == {0, 1, 999999, 1000000, 1000001, 10000000}

------------------------------------------------------------------------------
(* The pseudo-random generator: random.Random is modelled as a generator   *)
(* with RndMod states; a draw returns the state and steps it.              *)

RndStep(s) == (3 * s + 1) % RndMod

RECURSIVE RndSkip(_, _)
RndSkip(s, k) == IF k = 0 THEN s ELSE RndSkip(RndStep(s), k - 1)

(* rnd = random.Random(seed): a generator private to the call.             *)
SharedRandom(seed) == moduleRnd
LocalRandom(seed) == seed % RndMod

(* rnd.random() and rnd.randint(a, b) from state s.                        *)
RandomOf(s) == s
RandInt(s, a, b) == a + (s % (b - a + 1))

------------------------------------------------------------------------------
(* f"bench-{i:06d}": decimal digits of i, zero-padded on the left to at    *)
(* least IdWidth digits.                                                   *)

RECURSIVE Digits(_)
Digits(i) == IF i < 10 THEN <<i>> ELSE Append(Digits(i \div 10), i % 10)

RECURSIVE ZeroPad(_, _)
ZeroPad(ds, w) == IF Len(ds) >= w THEN ds ELSE ZeroPad(<<0>> \o ds, w)

RECURSIVE Pow10(_)
Pow10(k) == IF k = 0 THEN 1 ELSE 10 * Pow10(k - 1)

doc_id_fixed(i) == <<"bench-">> \o ZeroPad(Digits(i % Pow10(IdWidth)), IdWidth)
doc_id(i) == <<"bench-">> \o ZeroPad(Digits(i), IdWidth)

(* One document of the loop body, drawn from generator state s; the three  *)
(* draws are score, nested.x, nested.y in this order.                      *)
MakeDoc(i, s) ==
    LET s1 == RndStep(s)
        s2 == RndStep(s1)
    IN [id   |-> doc_id(i),
        data |-> [name   |-> <<"user_", i>>,
                  age    |-> 18 + (i % 60),
                  score  |-> RandomOf(s) * 100,
                  active |-> (i % 3) = 0,
                  tags   |-> <<"bench", "synthetic", IF (i % 2) = 0 THEN "even" ELSE "odd">>,
                  nested |-> [x |-> RandInt(s1, 0, 1000),
                              y |-> RandomOf(s2),
                              z |-> [k |-> "v"]]]]

(* range(n): the indexes 0..n-1 in order; empty when n <= 0.               *)
RangeUpTo(n) == IF n < 0 THEN <<>> ELSE [k \in 1..(n + 1) |-> k - 1]
Range(n) == IF n <= 0 THEN <<>> ELSE [k \in 1..n |-> k - 1]

RECURSIVE GenLoop(_, _, _)
GenLoop(idx, s, out) ==
    IF idx = <<>> THEN out
    ELSE GenLoop(Tail(idx), RndSkip(s, 3), Append(out, MakeDoc(Head(idx), s)))

(* generate_documents(n, seed): no argument check, so a negative n gives   *)
(* the empty list like n = 0.                                              *)
generate_documents(n, seed) ==
    [kind |-> "ok", docs |-> GenLoop(Range(n), LocalRandom(seed), <<>>)]

------------------------------------------------------------------------------
(* db_bench.py: the engine clients, run_engine_bench and main.             *)

DefaultSeed == 123   \* --seed default

Engines == <<"peacedb", "mongo", "couchdb">>
EngineSet == {Engines[k] : k \in 1..Len(Engines)}

(* No response within the timeout of the request: requests raises Timeout. *)
TimedOut == 0

NoExc == [kind |-> "none", engine |-> "", op |-> "", status |-> 0, ids |-> {}]
NotWritten == <<"not written">>
NoInsert == [called |-> FALSE, attempted |-> {}, rejected |-> {}, lost |-> {},
             returned |-> "none", named |-> {}]
NoRead == [called |-> FALSE, attempted |-> {}, missed |-> {}, returned |-> "none",
           kind |-> "none", status |-> 0]

(* ids = [d["id"] for d in docs]                                           *)
IdsReversed(ds) == [k \in 1..Len(ds) |-> ds[Len(ds) + 1 - k].id]
IdsOf(ds) == [k \in 1..Len(ds) |-> ds[k].id]
SeqRange(sq) == {sq[k] : k \in 1..Len(sq)}

(* Response.raise_for_status(): raises HTTPError for a 4xx or 5xx status.  *)
raise_for_status(status) == status >= 400 /\ status < 600

(* What the server may answer to the PUT that creates a database.          *)
PutOutcomes(exists) ==
    IF exists THEN {201, 202, 412, 500, TimedOut} ELSE {201, 202, 500, TimedOut}

(* What the backend may do with one document of a bulk insert: store it,   *)
(* reject it, acknowledge it without holding it afterwards, or not answer. *)
InsertOutcomes == {"stored", "rejected", "lost", "timeout"}
BatchOutcomes == {"stored", "rejected", "lost"}

(* A fault of the server during a bulk read: none, or at the k-th read an  *)
(* error status or no answer.                                              *)
ReadFaults(n) ==
    {[at |-> 0, kind |-> "none"]} \cup [at : 1..n, kind : {"error", "timeout"}]

(* PeaceDbClient.bulk_insert: one POST per document, raise_for_status      *)
(* after each; the first failure leaves the loop.                          *)
RECURSIVE PeaceInsertLoop(_, _, _, _)
PeaceInsertLoop(k, ids, f, acc) ==
    IF k > Len(ids) \/ acc.exc # NoExc THEN acc
    ELSE LET id == ids[k]
             sent == [acc EXCEPT !.attempted = @ \cup {id}]
         IN PeaceInsertLoop(k + 1, ids, f,
              CASE f[k] = "stored"   -> [sent EXCEPT !.store = @ \cup {id}]
                [] f[k] = "lost"     -> [sent EXCEPT !.lost = @ \cup {id}]
                [] f[k] = "rejected" ->
                     [sent EXCEPT !.rejected = @ \cup {id},
                                  !.exc = [kind |-> "HTTPError", engine |-> "peacedb",
                                           op |-> "bulkInsert", status |-> 500, ids |-> {}]]
                [] OTHER ->
                     [sent EXCEPT !.exc = [kind |-> "Timeout", engine |-> "peacedb",
                                           op |-> "bulkInsert", status |-> 0, ids |-> {}]])

(* One batch handed to the backend as a whole (insert_many, _bulk_docs):   *)
(* every document gets its own outcome.                                    *)
BatchApply(ids, f, st) ==
    [store    |-> st \cup {ids[k] : k \in {j \in 1..Len(ids) : f[j] = "stored"}},
     rejected |-> {ids[k] : k \in {j \in 1..Len(ids) : f[j] = "rejected"}},
     lost     |-> {ids[k] : k \in {j \in 1..Len(ids) : f[j] = "lost"}}]

(* The read loops: PeaceDbClient raises on every status >= 400,            *)
(* CouchDbClient lets 200 and 404 pass, MongoClientWrapper drops the       *)
(* result of find_one.                                                     *)
MissRaisesAlways(e) == TRUE
MissRaises(e) == e = "peacedb"

RECURSIVE ReadLoop(_, _, _, _, _, _)
ReadLoop(e, k, ids, fault, st, acc) ==
    IF k > Len(ids) \/ acc.returned = "raised" THEN acc
    ELSE LET id == ids[k]
             sent == [acc EXCEPT !.attempted = @ \cup {id}]
         IN ReadLoop(e, k + 1, ids, fault, st,
              IF fault.at = k
              THEN IF fault.kind = "timeout" \/ e = "mongo"
                   THEN [sent EXCEPT !.returned = "raised", !.kind = "Timeout"]
                   ELSE [sent EXCEPT !.returned = "raised", !.kind = "HTTPError",
                                     !.status = 500]
              ELSE IF id \in st THEN sent
              ELSE IF MissRaises(e)
                   THEN [sent EXCEPT !.missed = @ \cup {id}, !.returned = "raised",
                                     !.kind = "HTTPError", !.status = 404]
                   ELSE [sent EXCEPT !.missed = @ \cup {id}])

bulk_read(e, ids, fault, st) ==
    LET r == ReadLoop(e, 1, ids, fault, st, [NoRead EXCEPT !.called = TRUE])
    IN IF r.returned = "raised" THEN r ELSE [r EXCEPT !.returned = "ok"]

(* The documents an earlier run may have left in a backend.                *)
Leftovers == {{}, {doc_id(0)}}

BenchIdle ==
    /\ pc = "idle"
    /\ args = [n |-> 0, seed |-> DefaultSeed]
    /\ docs = <<>>
    /\ engIdx = 0
    /\ phase = [e \in EngineSet |-> "Unprepared"]
    /\ dbExists = [e \in EngineSet |-> FALSE]
    /\ store = [e \in EngineSet |-> {}]
    /\ insertRep = [e \in EngineSet |-> NoInsert]
    /\ readRep = [e \in EngineSet |-> NoRead]
    /\ raised = NoExc
    /\ all_results = <<>>
    /\ csv = NotWritten
    /\ calls = <<>>

BenchInit ==
    /\ pc = "start"
    /\ args \in [n : Sizes, seed : {DefaultSeed}]
    /\ docs = <<>>
    /\ engIdx = 0
    /\ phase = [e \in EngineSet |-> "Unprepared"]
    /\ dbExists \in [EngineSet -> BOOLEAN]
    /\ store \in [EngineSet -> Leftovers]
    /\ \A e \in EngineSet : store[e] # {} => dbExists[e]
    /\ insertRep = [e \in EngineSet |-> NoInsert]
    /\ readRep = [e \in EngineSet |-> NoRead]
    /\ raised = NoExc
    /\ all_results = <<>>
    /\ csv = NotWritten
    /\ calls = <<>>

------------------------------------------------------------------------------
(* bench_runner.py: _aggregate_results.                                    *)

(* Strings are compared and lower-cased through their character codes.     *)
Spell ==
    [s \in {"", "json", "JSON", "binary", "protobuf", "avro", "msgpack"} |->
        CASE s = ""         -> <<>>
          [] s = "json"     -> <<106, 115, 111, 110>>
          [] s = "JSON"     -> <<74, 83, 79, 78>>
          [] s = "binary"   -> <<98, 105, 110, 97, 114, 121>>
          [] s = "protobuf" -> <<112, 114, 111, 116, 111, 98, 117, 102>>
          [] s = "avro"     -> <<97, 118, 114, 111>>
          [] s = "msgpack"  -> <<109, 115, 103, 112, 97, 99, 107>>]

(* str.lower()                                                             *)
LowerCode(c) == IF c >= 65 /\ c <= 90 THEN c + 32 ELSE c
Lower(s) ==
    CHOOSE t \in DOMAIN Spell : Spell[t] = [i \in 1..Len(Spell[s]) |-> LowerCode(Spell[s][i])]

(* The order of str used by sorted(): by character codes, a prefix first.  *)
RECURSIVE CodesLess(_, _)
CodesLess(x, y) ==
    IF y = <<>> THEN FALSE
    ELSE IF x = <<>> THEN TRUE
    ELSE IF Head(x) # Head(y) THEN Head(x) < Head(y)
    ELSE CodesLess(Tail(x), Tail(y))

StrLess(a, b) == CodesLess(Spell[a], Spell[b])

RECURSIVE SortedStrsDesc(_)
SortedStrsDesc(S) ==
    IF S = {} THEN <<>>
    ELSE LET m == CHOOSE x \in S : \A y \in S \ {x} : StrLess(y, x)
         IN <<m>> \o SortedStrsDesc(S \ {m})

(* sorted() of a set of strings and of a set of integers.                  *)
RECURSIVE SortedStrs(_)
SortedStrs(S) ==
    IF S = {} THEN <<>>
    ELSE LET m == CHOOSE x \in S : \A y \in S \ {x} : StrLess(x, y)
         IN <<m>> \o SortedStrs(S \ {m})

RECURSIVE SortedInts(_)
SortedInts(S) ==
    IF S = {} THEN <<>>
    ELSE LET m == CHOOSE x \in S : \A y \in S : x <= y
         IN <<m>> \o SortedInts(S \ {m})

(* Exact rationals stand for the floats of the code: [num, den] in lowest  *)
(* terms. The square root of a rational that is no square is kept as       *)
(* [surd |-> q].                                                           *)
RECURSIVE Gcd(_, _)
Gcd(a, b) == IF b = 0 THEN a ELSE Gcd(b, a % b)

Rat(a, b) == LET g == Gcd(a, b) IN [num |-> a \div g, den |-> b \div g]

RECURSIVE IRoot(_, _)
IRoot(x, r) == IF r * r >= x THEN r ELSE IRoot(x, r + 1)

Sqrt(q) ==
    LET rn == IRoot(q.num, 0)
        rd == IRoot(q.den, 1)
    IN IF rn * rn = q.num /\ rd * rd = q.den THEN [num |-> rn, den |-> rd]
       ELSE [surd |-> q]

RECURSIVE Sum(_)
Sum(vals) == IF vals = <<>> THEN 0 ELSE Head(vals) + Sum(Tail(vals))

RECURSIVE SumSq(_)
SumSq(vals) == IF vals = <<>> THEN 0 ELSE Head(vals) * Head(vals) + SumSq(Tail(vals))

(* statistics.fmean, statistics.pstdev (and statistics.stdev, which        *)
(* divides by the sample count less one).                                  *)
fmean(vals) == Rat(Sum(vals), Len(vals))

stdev(vals) ==
    LET k == Len(vals)
    IN Sqrt(Rat(k * SumSq(vals) - Sum(vals) * Sum(vals), k * (k - 1)))

pstdev(vals) ==
    LET k == Len(vals)
    IN Sqrt(Rat(k * SumSq(vals) - Sum(vals) * Sum(vals), k * k))

(* mstd, lines 81-84                                                       *)
mstd(vals) ==
    IF vals = <<>> THEN [mean |-> Rat(0, 1), std |-> Rat(0, 1)]
    ELSE IF Len(vals) = 1 THEN [mean |-> Rat(vals[1], 1), std |-> Rat(0, 1)]
    ELSE [mean |-> fmean(vals), std |-> pstdev(vals)]

Metrics == {"serializeMs", "deserializeMs", "avgBytesPerDoc"}
preferred == <<"json", "binary", "protobuf">>

(* r.get(key, default)                                                     *)
Get(r, key, default) == IF key \in DOMAIN r THEN r[key] ELSE default

(* Lines 70-71: the bucket key of a record.                                *)
FmtOf(r) == Lower(Get(r, "format", ""))
NOfZero(r) == 0
NOf(r) == Get(r, "n", 0)

(* dict.setdefault chain of line 76 and the appends of lines 77-79.        *)
EmptyFn == [x \in {} |-> <<>>]
EmptyLists == [m \in Metrics |-> <<>>]

AddToBuckets(b, r) ==
    LET fmt == FmtOf(r)
        n == NOf(r)
        byN == IF fmt \in DOMAIN b THEN b[fmt] ELSE EmptyFn
        d == IF n \in DOMAIN byN THEN byN[n] ELSE EmptyLists
        d2 == [m \in Metrics |-> IF m \in DOMAIN r THEN Append(d[m], r[m]) ELSE d[m]]
        byN2 == [k \in DOMAIN byN \cup {n} |-> IF k = n THEN d2 ELSE byN[k]]
    IN [f \in DOMAIN b \cup {fmt} |-> IF f = fmt THEN byN2 ELSE b[f]]

(* The loop of lines 69-79.                                                *)
RECURSIVE Collect(_, _, _)
Collect(rs, k, acc) ==
    IF k > Len(rs) THEN acc
    ELSE IF FmtOf(rs[k]) = "" THEN Collect(rs, k + 1, acc)
    ELSE Collect(rs, k + 1,
            [buckets |-> AddToBuckets(acc.buckets, rs[k]),
             ns      |-> acc.ns \cup {NOf(rs[k])},
             fmts    |-> acc.fmts \cup {FmtOf(rs[k])}])

(* Lines 92-95: the preferred formats that were detected, in the order of  *)
(* preferred, then the other detected formats sorted.                      *)
FormatsAlphabetical(fmts) == SortedStrs(fmts)
FormatsSorted(fmts) ==
    LET tail == {f \in fmts : f \notin SeqRange(preferred)}
    IN SelectSeq(preferred, LAMBDA f : f \in fmts) \o SortedStrs(tail)

_aggregate_results(rs) ==
    LET c == Collect(rs, 1, [buckets |-> EmptyFn, ns |-> {}, fmts |-> {}])
    IN [scales_sorted  |-> SortedInts(c.ns),
        formats_sorted |-> FormatsSorted(c.fmts),
        agg     |-> [f \in DOMAIN c.buckets |->
                        [n \in DOMAIN c.buckets[f] |->
                            [m \in Metrics |-> mstd(c.buckets[f][n][m])]]],
        buckets |-> c.buckets]

NotRun == [scales_sorted |-> <<>>, formats_sorted |-> <<>>, agg |-> EmptyFn,
           buckets |-> EmptyFn, ran |-> FALSE]

(* The record lists the aggregation is run on.                             *)
StatRecords ==
    LET keys == ({"json", "binary"} \X {1, 10}) \cup {<<"JSON", 1>>}
    IN {[format |-> k[1], n |-> k[2], serializeMs |-> 10] : k \in keys}
       \cup {[format |-> k[1], n |-> k[2], serializeMs |-> 12, deserializeMs |-> 10,
              avgBytesPerDoc |-> 10] : k \in keys}
       \cup {[format |-> k[1], n |-> k[2], serializeMs |-> 10, deserializeMs |-> 12,
              avgBytesPerDoc |-> 12] : k \in keys}
       \cup {[format |-> "", n |-> 1, serializeMs |-> 10],
             [n |-> 1, serializeMs |-> 10],
             [format |-> "json", serializeMs |-> 12]}

OrderRecords ==
    {[format |-> f, n |-> 1, serializeMs |-> 10] : f \in DOMAIN Spell}

AggIdle ==
    /\ results = <<>>
    /\ aggOut = NotRun

------------------------------------------------------------------------------
(* bench_runner.py: run_bench and the server behind POST /v1/bench/run.    *)

(* The formats the server measures, the scale lists of the request, and    *)
(* the times a measured trial and a warmup trial may take.                 *)
ServerFormats == <<"json", "binary">>
ScaleLists == {<<1>>, <<10, 1>>}
SampleValues == {10, 12}
WarmupValues == {15}

RunnerIdle ==
    /\ runner = [pc |-> "idle", scales |-> <<>>, warmup |-> 0, iterations |-> 0,
                 si |-> 1, fi |-> 1, ti |-> 0]
    /\ trialLog = <<>>

RunnerInit ==
    /\ runner = [pc |-> "start", scales |-> <<>>, warmup |-> 0, iterations |-> 0,
                 si |-> 1, fi |-> 1, ti |-> 0]
    /\ trialLog = <<>>

------------------------------------------------------------------------------
(* bench_runner.py: main, save_csv and plot_results.                       *)

(* A string is a sequence of characters.                                   *)
ScaleChars == {"0", "1", ",", " ", "x", "-"}
StringsUpTo(chars, n) == UNION {[1..k -> chars] : k \in 0..n}

(* str.split(sep)                                                          *)
RECURSIVE SplitFrom(_, _, _, _, _)
SplitFrom(s, sep, i, cur, acc) ==
    IF i > Len(s) THEN Append(acc, cur)
    ELSE IF s[i] = sep THEN SplitFrom(s, sep, i + 1, <<>>, Append(acc, cur))
    ELSE SplitFrom(s, sep, i + 1, Append(cur, s[i]), acc)

split(s, sep) == SplitFrom(s, sep, 1, <<>>, <<>>)

(* str.strip()                                                             *)
IsSpace(c) == c \in {" ", "\n"}

RECURSIVE lstrip(_)
lstrip(s) == IF s # <<>> /\ IsSpace(Head(s)) THEN lstrip(Tail(s)) ELSE s

RECURSIVE rstrip(_)
rstrip(s) ==
    IF s # <<>> /\ IsSpace(s[Len(s)]) THEN rstrip(SubSeq(s, 1, Len(s) - 1)) ELSE s

strip(s) == rstrip(lstrip(s))

(* int(str): an optional sign and one or more decimal digits, surrounding  *)
(* whitespace aside; anything else raises ValueError.                      *)
DigitChars == <<"0", "1", "2", "3", "4", "5", "6", "7", "8", "9">>
IsDigit(c) == \E d \in 1..Len(DigitChars) : DigitChars[d] = c
DigitValue(c) == (CHOOSE d \in 1..Len(DigitChars) : DigitChars[d] = c) - 1

RECURSIVE DigitsValue(_, _)
DigitsValue(s, acc) ==
    IF s = <<>> THEN acc ELSE DigitsValue(Tail(s), 10 * acc + DigitValue(Head(s)))

int(s) ==
    LET t == strip(s)
        signed == t # <<>> /\ Head(t) \in {"-", "+"}
        body == IF signed THEN Tail(t) ELSE t
    IN IF body # <<>> /\ \A k \in 1..Len(body) : IsDigit(body[k])
       THEN [ok |-> TRUE,
             value |-> IF signed /\ Head(t) = "-" THEN 0 - DigitsValue(body, 0)
                       ELSE DigitsValue(body, 0)]
       ELSE [ok |-> FALSE, value |-> 0]

(* Line 249: if not scales.                                                *)
EmptyAllowed(scales) == FALSE
NoScales(scales) == scales = <<>>

(* Lines 247-251: the list comprehension over the pieces of --scales and   *)
(* the check of the list; error says which exception was raised.           *)
ParsedScales(s) ==
    LET pieces == split(s, ",")
        kept == SelectSeq(pieces, LAMBDA x : strip(x) # <<>>)
        parsed == [k \in 1..Len(kept) |-> int(strip(kept[k]))]
        values == [k \in 1..Len(kept) |-> parsed[k].value]
    IN IF \E k \in 1..Len(kept) : ~parsed[k].ok
       THEN [ok |-> FALSE, scales |-> <<>>, error |-> "invalid literal for int()"]
       ELSE IF NoScales(values)
       THEN [ok |-> FALSE, scales |-> <<>>, error |-> "Empty --scales."]
       ELSE [ok |-> TRUE, scales |-> values, error |-> ""]

(* What GET /v1/bench/formats may answer: a failure or a list of names.    *)
FormatAnswers == {[ok |-> FALSE, names |-> <<>>], [ok |-> TRUE, names |-> <<"JSON", "binary">>]}

(* get_formats: the names lower-cased, [] on any exception.                *)
get_formats(answer) ==
    IF answer.ok THEN [k \in 1..Len(answer.names) |-> Lower(answer.names[k])] ELSE <<>>

(* data.get("results") or data.get("Results"); None and [] are both        *)
(* rejected by the callers and are both <<>> here.                         *)
ResultsOf(d) ==
    LET lower == Get(d, "results", <<>>)
    IN IF lower # <<>> THEN lower ELSE Get(d, "Results", <<>>)

(* save_csv, lines 213-215 and 221-227: one cell per field, taken from the *)
(* field's key or else from its capitalised key, "" when both are absent.  *)
fields == <<"format", "n", "serializeMs", "deserializeMs", "totalBytes", "avgBytesPerDoc">>
alt == [Format |-> "format", N |-> "n", SerializeMs |-> "serializeMs",
        DeserializeMs |-> "deserializeMs", TotalBytes |-> "totalBytes",
        AvgBytesPerDoc |-> "avgBytesPerDoc"]

CsvRow(r) ==
    [i \in 1..Len(fields) |->
        LET k == fields[i]
            found == {kk \in DOMAIN alt : alt[kk] = k}
        IN IF k \in DOMAIN r THEN r[k]
           ELSE IF found # {} THEN Get(r, CHOOSE kk \in found : TRUE, "")
           ELSE ""]

(* _plot_single_n_times and _plot_bytes_bar write their file only when     *)
(* some format has a bucket at n.                                          *)
HasBucketAt(a, n) == \E f \in DOMAIN a.agg : n \in DOMAIN a.agg[f]

(* max(scales_sorted)                                                      *)
MaxOf(sq) == CHOOSE x \in SeqRange(sq) : \A y \in SeqRange(sq) : y <= x

(* plot_results, lines 192-203, after the aggregation: the files written   *)
(* and the exception raised, if any.                                       *)
PlotFiles(a) ==
    IF Len(a.scales_sorted) = 1
    THEN [written |-> IF HasBucketAt(a, a.scales_sorted[1])
                      THEN {"serialize_hbar.png", "deserialize_hbar.png", "bytes_per_doc.png"}
                      ELSE {},
          error |-> ""]
    ELSE IF a.scales_sorted = <<>>
    THEN [written |-> {"serialize_vs_n.png", "deserialize_vs_n.png"},
          error |-> "ValueError: max() arg is an empty sequence"]
    ELSE [written |-> {"serialize_vs_n.png", "deserialize_vs_n.png"}
                      \cup (IF HasBucketAt(a, MaxOf(a.scales_sorted))
                            THEN {"bytes_per_doc.png"} ELSE {}),
          error |-> ""]

(* The record of one trial as the server writes it, with lower-case keys   *)
(* and with capitalised keys.                                              *)
LowerRecord(f, n) ==
    [format |-> f, n |-> n, serializeMs |-> 10, deserializeMs |-> 12,
     totalBytes |-> 10 * n, avgBytesPerDoc |-> 10]
UpperRecord(f, n) ==
    [Format |-> f, N |-> n, SerializeMs |-> 10, DeserializeMs |-> 12,
     TotalBytes |-> 10 * n, AvgBytesPerDoc |-> 10]

(* The records a response is built from, and the responses: the list under *)
(* results, under Results, under neither.                                  *)
PlotRecords ==
    {LowerRecord("json", 1), LowerRecord("binary", 10), LowerRecord("JSON", 1),
     UpperRecord("json", 1), LowerRecord("", 1),
     [n |-> 1, serializeMs |-> 10, deserializeMs |-> 12]}

ResponsesOf(records, n) ==
    LET lists == UNION {[1..k -> records] : k \in 0..n}
    IN {[results |-> l] : l \in lists} \cup {[Results |-> l] : l \in lists}
       \cup {[results |-> <<>>, Results |-> l] : l \in lists}
       \cup {[error |-> "no results"]}

CliResponses == ResponsesOf({LowerRecord("json", 1)}, 1)
PlotResponses == ResponsesOf(PlotRecords, MaxRows)

(* The status codes POST /v1/bench/run may answer with.                    *)
RunStatuses == {200, 500}

NoData == [none |-> TRUE]
CliStart(at) ==
    [pc |-> at, scales |-> <<>>, fmts_from_api |-> <<>>, exitCode |-> -1, stderr |-> <<>>]

CliIdle ==
    /\ argScales = <<>>
    /\ cli = CliStart("idle")
    /\ requests = <<>>
    /\ files = {}
    /\ data = NoData
    /\ csvRows = <<>>

(* main is started with any --scales string of up to MaxScalesLen          *)
(* characters.                                                             *)
CliInit ==
    /\ argScales \in StringsUpTo(ScaleChars, MaxScalesLen)
    /\ cli = CliStart("start")
    /\ requests = <<>>
    /\ files = {}
    /\ data = NoData
    /\ csvRows = <<>>

(* main is started with one of a few --scales strings.                     *)
PlotInit ==
    /\ argScales \in {<<"1">>, <<"1", ",", "1", "0">>, <<"x">>}
    /\ cli = CliStart("start")
    /\ requests = <<>>
    /\ files = {}
    /\ data = NoData
    /\ csvRows = <<>>

------------------------------------------------------------------------------
(* prepare_news_for_upload.py: iter_records; convert.py.                   *)

(* json.loads on texts over the characters { } [ ] , 1 m, blanks and       *)
(* other characters: 1 is a number, m is a member "key": value of an       *)
(* object, any other character is not JSON. The result is the value        *)
(* read and the position after it, or a failure (JSONDecodeError).         *)
CharAt(s, i) == IF i >= 1 /\ i <= Len(s) THEN s[i] ELSE ""

RECURSIVE SkipWs(_, _)
SkipWs(s, i) == IF i <= Len(s) /\ IsSpace(s[i]) THEN SkipWs(s, i + 1) ELSE i

NoValue == [kind |-> "none"]
ParseFail == [ok |-> FALSE, next |-> 0, val |-> NoValue]

RECURSIVE ParseValue(_, _)
RECURSIVE ParseElems(_, _, _)
ParseValue(s, i) ==
    LET c == CharAt(s, i)
        j == SkipWs(s, i + 1)
    IN IF c = "1" THEN [ok |-> TRUE, next |-> i + 1, val |-> [kind |-> "number"]]
       ELSE IF c = "{"
       THEN IF CharAt(s, j) = "}"
            THEN [ok |-> TRUE, next |-> j + 1, val |-> [kind |-> "dict", members |-> 0]]
            ELSE IF CharAt(s, j) = "m" /\ CharAt(s, SkipWs(s, j + 1)) = "}"
            THEN [ok |-> TRUE, next |-> SkipWs(s, j + 1) + 1,
                  val |-> [kind |-> "dict", members |-> 1]]
            ELSE ParseFail
       ELSE IF c = "["
       THEN IF CharAt(s, j) = "]"
            THEN [ok |-> TRUE, next |-> j + 1, val |-> [kind |-> "list", items |-> <<>>]]
            ELSE ParseElems(s, j, <<>>)
       ELSE ParseFail

ParseElems(s, i, acc) ==
    LET v == ParseValue(s, i)
        k == SkipWs(s, v.next)
    IN IF ~v.ok THEN ParseFail
       ELSE IF CharAt(s, k) = "]"
       THEN [ok |-> TRUE, next |-> k + 1,
             val |-> [kind |-> "list", items |-> Append(acc, v.val)]]
       ELSE IF CharAt(s, k) = ","
       THEN ParseElems(s, SkipWs(s, k + 1), Append(acc, v.val))
       ELSE ParseFail

(* json.loads(s): one value, blanks around it, nothing else.               *)
json_loads(s) ==
    LET v == ParseValue(s, SkipWs(s, 1))
    IN IF v.ok /\ SkipWs(s, v.next) > Len(s)
       THEN [ok |-> TRUE, val |-> v.val]
       ELSE [ok |-> FALSE, val |-> NoValue]

(* str.find and str.rfind of one character: a position from 0, or -1.      *)
find(s, c) ==
    IF \E i \in 1..Len(s) : s[i] = c
    THEN (CHOOSE i \in 1..Len(s) : s[i] = c /\ \A j \in 1..(i - 1) : s[j] # c) - 1
    ELSE -1
rfind(s, c) ==
    IF \E i \in 1..Len(s) : s[i] = c
    THEN (CHOOSE i \in 1..Len(s) : s[i] = c /\ \A j \in (i + 1)..Len(s) : s[j] # c) - 1
    ELSE -1

startswith(s, c) == s # <<>> /\ Head(s) = c
endswith(s, c) == s # <<>> /\ s[Len(s)] = c

(* The text of the file: its lines, each ended by a newline.               *)
RECURSIVE FileText(_)
FileText(lines) ==
    IF lines = <<>> THEN <<>> ELSE Head(lines) \o <<"\n">> \o FileText(Tail(lines))

(* iter_records, lines 23-37: what the whole-file parse yields and         *)
(* whether the function returns after it.                                  *)
FastPath(lines) ==
    LET whole == json_loads(FileText(lines))
    IN IF whole.ok /\ whole.val.kind = "list"
       THEN [returns |-> TRUE,
             items |-> SelectSeq(whole.val.items, LAMBDA item : item.kind = "dict")]
       ELSE IF whole.ok /\ whole.val.kind = "dict"
       THEN [returns |-> TRUE, items |-> <<whole.val>>]
       ELSE [returns |-> FALSE, items |-> <<>>]

(* iter_records, lines 41-60: the body of the loop for one line; what it   *)
(* does with the line and the object it yields.                            *)
LineStep(raw) ==
    LET line == strip(raw)
        whole == startswith(line, "{") /\ endswith(line, "}")
        start == find(line, "{")
        end == rfind(line, "}")
        text == IF whole THEN line ELSE SubSeq(line, start + 1, end + 1)
        obj == json_loads(text)
    IN IF line = <<>> THEN [does |-> "empty", obj |-> NoValue]
       ELSE IF ~whole /\ ~(start >= 0 /\ end > start) THEN [does |-> "no object", obj |-> NoValue]
       ELSE IF ~obj.ok THEN [does |-> "malformed", obj |-> NoValue]
       ELSE IF obj.val.kind = "dict" THEN [does |-> "yield", obj |-> obj.val]
       ELSE [does |-> "not a dict", obj |-> NoValue]

(* continue: the loop goes on with the next line.                          *)
Break(k, n) == n + 1
Continue(k, n) == k + 1

(* convert.py, lines 10-17: the body of the loop for one line.             *)
ConvertStep(raw) ==
    LET line == strip(raw)
        obj == json_loads(line)
    IN IF line = <<>> THEN [does |-> "empty", obj |-> NoValue]
       ELSE IF obj.ok THEN [does |-> "append", obj |-> obj.val]
       ELSE [does |-> "warn", obj |-> NoValue]

(* The lines dataset files are made of.                                    *)
SampleLines ==
    {<<>>, <<" ">>, <<"{", "}">>, <<"{", "m", "}">>, <<" ", "{", " ", "m", "}", " ">>,
     <<"x", "{", "m", "}", "x">>, <<"{", "m", "}", "{", "m", "}">>, <<"{", "m", "}", "}">>,
     <<"{", "m">>, <<"}", "{">>, <<"x">>, <<"1">>, <<"[", "{", "m", "}", ",", "1", "]">>,
     <<"{">>, <<"}">>}

IngestIdle ==
    /\ fileLines = <<>>
    /\ reader = [pc |-> "idle", k |-> 0]
    /\ yielded = <<>>
    /\ conv = [pc |-> "idle", k |-> 1, data |-> <<>>, warnings |-> 0]

(* A file of up to MaxLines lines; iter_records and convert.py are both    *)
(* about to read it.                                                       *)
IngestInit ==
    /\ fileLines \in UNION {[1..k -> SampleLines] : k \in 0..MaxLines}
    /\ reader = [pc |-> "start", k |-> 0]
    /\ yielded = <<>>
    /\ conv = [pc |-> "loop", k |-> 1, data |-> <<>>, warnings |-> 0]

------------------------------------------------------------------------------
(* Specification of the generator.                                         *)

GenIdle ==
    /\ moduleRnd = 0
    /\ lastCall = NoCall
    /\ genResult = NoResult
    /\ refCall = [call |-> NoCall, result |-> NoResult, later |-> FALSE, between |-> FALSE]
    /\ probe = [i |-> 0, j |-> 0, idI |-> <<>>, idJ |-> <<>>, done |-> FALSE]

GenInit ==
    /\ moduleRnd \in 0..(RndMod - 1)
    /\ lastCall = NoCall
    /\ genResult = NoResult
    /\ refCall = [call |-> NoCall, result |-> NoResult, later |-> FALSE, between |-> FALSE]
    /\ probe = [i |-> 0, j |-> 0, idI |-> <<>>, idJ |-> <<>>, done |-> FALSE]

(* A call of generate_documents; keep says whether the earlier call kept   *)
(* for comparison stays, otherwise this call takes its place. later: the   *)
(* latest call came after the kept one; between: something else (a call    *)
(* with other arguments, a use of the module-level generator) happened     *)
(* after the kept call.                                                    *)
CallGenerate(n, seed, keep) ==
    LET r == generate_documents(n, seed)
        c == [n |-> n, seed |-> seed]
    IN /\ lastCall' = c
       /\ genResult' = r
       /\ refCall' = IF keep /\ refCall.call # NoCall
                     THEN [refCall EXCEPT !.later = TRUE,
                                          !.between = @ \/ (c # refCall.call)]
                     ELSE [call |-> c, result |-> r, later |-> FALSE, between |-> FALSE]
       /\ UNCHANGED <<moduleRnd, probe, GenRest>>

(* _rand_string(prefix, n = 8): eight draws from the module-level generator. *)
RandString ==
    /\ moduleRnd' = RndSkip(moduleRnd, 8)
    /\ refCall' = [refCall EXCEPT !.between = (refCall.call # NoCall)]
    /\ UNCHANGED <<lastCall, genResult, probe, GenRest>>

(* Two iterations i and j of the loop of generate_documents build their ids. *)
FormatDocIds(i, j) ==
    /\ probe' = [i |-> i, j |-> j, idI |-> doc_id(i), idJ |-> doc_id(j), done |-> TRUE]
    /\ UNCHANGED <<moduleRnd, lastCall, genResult, refCall, GenRest>>

NextGen ==
    \/ \E n \in Sizes, seed \in Seeds, keep \in BOOLEAN : CallGenerate(n, seed, keep)
    \/ RandString
    \/ \E i \in ProbeIdx, j \in ProbeIdx : FormatDocIds(i, j)

InitGen == GenInit /\ BenchIdle /\ AggIdle /\ RunnerIdle /\ CliIdle /\ IngestIdle

SpecGen == InitGen /\ [][NextGen]_vars

------------------------------------------------------------------------------
(* Properties of the generator (SpecGen).                                  *)

(* C1: a later call of generate_documents with the arguments (n, seed) of  *)
(* an earlier call returns the same document sequence as the earlier call, *)
(* whatever calls with other arguments and whatever uses of the            *)
(* module-level generator happened in between.                             *)
C1_Deterministic ==
    (refCall.later /\ lastCall = refCall.call) => genResult = refCall.result

C1_Witness ==
    /\ refCall.later /\ refCall.between
    /\ lastCall = refCall.call
    /\ lastCall.n >= 2
    /\ moduleRnd # LocalRandom(lastCall.seed)
    /\ genResult = refCall.result

(* C2: for n >= 0 generate_documents(n, seed) returns exactly n documents  *)
(* and no error; for n = 0 the empty sequence.                             *)
C2_Length ==
    (lastCall # NoCall /\ lastCall.n >= 0) =>
        /\ genResult.kind = "ok"
        /\ Len(genResult.docs) = lastCall.n
        /\ (lastCall.n = 0 => genResult.docs = <<>>)

C2_Witness ==
    /\ refCall.call # NoCall /\ refCall.call.n = 0 /\ refCall.result.docs = <<>>
    /\ lastCall.n >= 2 /\ Len(genResult.docs) = lastCall.n

(* C7: a call of generate_documents with a negative size fails with an     *)
(* InvalidArgument error and returns no document sequence.                 *)
C7_NegativeRejected ==
    (lastCall # NoCall /\ lastCall.n < 0) => genResult.kind = "InvalidArgument"

(* C8: the ids of the documents of one generate_documents call are         *)
(* pairwise distinct, also for indexes of more than six digits; an id is   *)
(* bench- followed by at least six digits.                                 *)
C8_DistinctIds ==
    /\ \A p, q \in 1..Len(genResult.docs) :
           p # q => genResult.docs[p].id # genResult.docs[q].id
    /\ probe.done =>
           /\ probe.i # probe.j => probe.idI # probe.idJ
           /\ Head(probe.idI) = "bench-" /\ Len(probe.idI) >= 1 + IdWidth

C8_Witness ==
    /\ probe.done /\ probe.i = 0 /\ probe.j >= 1000000
    /\ Len(probe.idJ) > 1 + IdWidth
    /\ probe.idI # probe.idJ
    /\ Len(genResult.docs) >= 2

------------------------------------------------------------------------------
(* Specification of the sweep of db_bench.py.                              *)

(* main, lines 212-219: generate the documents, build the clients.         *)
MainStart ==
    /\ pc = "start"
    /\ docs' = generate_documents(args.n, args.seed).docs
    /\ pc' = "loop"
    /\ engIdx' = 1
    /\ UNCHANGED <<args, phase, dbExists, store, insertRep, readRep, raised,
                   all_results, csv, calls, BenchRest>>

At(e, ph) ==
    /\ pc = "loop"
    /\ engIdx \in 1..Len(Engines)
    /\ Engines[engIdx] = e
    /\ phase[e] = ph

Called(e, op, a) == calls' = Append(calls, [engine |-> e, op |-> op, ids |-> a])

(* An exception leaves run_engine_bench and main: nothing catches it.      *)
Propagate(exc) ==
    /\ pc' = "crashed"
    /\ raised' = exc
    /\ UNCHANGED <<engIdx, phase, all_results, csv>>

Advance(e, ph) ==
    /\ phase' = [phase EXCEPT ![e] = ph]
    /\ UNCHANGED <<pc, raised, engIdx, all_results, csv>>

(* The backend's side of a PUT that creates the database.                  *)
PutEffect(e, status) ==
    /\ dbExists' = [dbExists EXCEPT ![e] = @ \/ status \in {201, 202}]
    /\ UNCHANGED store

(* PeaceDbClient.create_db                                                 *)
PeaceCreateDb(status) ==
    /\ At("peacedb", "Unprepared")
    /\ status \in PutOutcomes(dbExists["peacedb"])
    /\ Called("peacedb", "prepare", <<>>)
    /\ PutEffect("peacedb", status)
    /\ IF status = TimedOut
       THEN Propagate([kind |-> "Timeout", engine |-> "peacedb", op |-> "prepare",
                       status |-> 0, ids |-> {}])
       ELSE IF raise_for_status(status)
       THEN Propagate([kind |-> "HTTPError", engine |-> "peacedb", op |-> "prepare",
                       status |-> status, ids |-> {}])
       ELSE Advance("peacedb", "Prepared")
    /\ UNCHANGED <<args, docs, insertRep, readRep, BenchRest>>

(* CouchDbClient.create_db                                                 *)
CouchCreateDb(status) ==
    /\ At("couchdb", "Unprepared")
    /\ status \in PutOutcomes(dbExists["couchdb"])
    /\ Called("couchdb", "prepare", <<>>)
    /\ PutEffect("couchdb", status)
    /\ IF status = TimedOut
       THEN Propagate([kind |-> "Timeout", engine |-> "couchdb", op |-> "prepare",
                       status |-> 0, ids |-> {}])
       ELSE IF status \notin {201, 202, 412} /\ raise_for_status(status)
       THEN Propagate([kind |-> "HTTPError", engine |-> "couchdb", op |-> "prepare",
                       status |-> status, ids |-> {}])
       ELSE Advance("couchdb", "Prepared")
    /\ UNCHANGED <<args, docs, insertRep, readRep, BenchRest>>

(* MongoClientWrapper.prepare: drop the collection, create the index.      *)
MongoPrepare(up) ==
    /\ At("mongo", "Unprepared")
    /\ Called("mongo", "prepare", <<>>)
    /\ IF up
       THEN /\ store' = [store EXCEPT !["mongo"] = {}]
            /\ dbExists' = [dbExists EXCEPT !["mongo"] = TRUE]
            /\ Advance("mongo", "Prepared")
       ELSE /\ UNCHANGED <<store, dbExists>>
            /\ Propagate([kind |-> "Timeout", engine |-> "mongo", op |-> "prepare",
                          status |-> 0, ids |-> {}])
    /\ UNCHANGED <<args, docs, insertRep, readRep, BenchRest>>

AfterInsert(e, rep, exc) ==
    /\ insertRep' = [insertRep EXCEPT ![e] = rep]
    /\ IF exc = NoExc THEN Advance(e, "Inserted") ELSE Propagate(exc)

(* PeaceDbClient.bulk_insert                                               *)
PeaceBulkInsert(f) ==
    /\ At("peacedb", "Prepared")
    /\ Called("peacedb", "bulkInsert", IdsOf(docs))
    /\ LET r == PeaceInsertLoop(1, IdsOf(docs), f,
                   [store |-> store["peacedb"], attempted |-> {}, rejected |-> {},
                    lost |-> {}, exc |-> NoExc])
       IN /\ store' = [store EXCEPT !["peacedb"] = r.store]
          /\ AfterInsert("peacedb",
                 [called |-> TRUE, attempted |-> r.attempted, rejected |-> r.rejected,
                  lost |-> r.lost,
                  returned |-> IF r.exc = NoExc THEN "ok" ELSE "raised",
                  named |-> r.exc.ids],
                 r.exc)
    /\ UNCHANGED <<args, docs, dbExists, readRep, BenchRest>>

(* MongoClientWrapper.bulk_insert: insert_many(..., ordered=False) tries   *)
(* every document and raises BulkWriteError listing each failed write; it  *)
(* is not called for an empty list.                                        *)
MongoBulkInsert(up, f) ==
    /\ At("mongo", "Prepared")
    /\ Called("mongo", "bulkInsert", IdsOf(docs))
    /\ LET ids == IdsOf(docs)
           r == BatchApply(ids, f, store["mongo"])
       IN IF ids = <<>>
          THEN /\ UNCHANGED store
               /\ AfterInsert("mongo", [NoInsert EXCEPT !.called = TRUE, !.returned = "ok"],
                              NoExc)
          ELSE IF ~up
          THEN /\ UNCHANGED store
               /\ AfterInsert("mongo",
                      [NoInsert EXCEPT !.called = TRUE, !.attempted = SeqRange(ids),
                                       !.returned = "raised"],
                      [kind |-> "Timeout", engine |-> "mongo", op |-> "bulkInsert",
                       status |-> 0, ids |-> {}])
          ELSE /\ store' = [store EXCEPT !["mongo"] = r.store]
               /\ AfterInsert("mongo",
                      [called |-> TRUE, attempted |-> SeqRange(ids),
                       rejected |-> r.rejected, lost |-> r.lost,
                       returned |-> IF r.rejected = {} THEN "ok" ELSE "raised",
                       named |-> r.rejected],
                      IF r.rejected = {} THEN NoExc
                      ELSE [kind |-> "BulkWriteError", engine |-> "mongo",
                            op |-> "bulkInsert", status |-> 0, ids |-> r.rejected])
    /\ UNCHANGED <<args, docs, dbExists, readRep, BenchRest>>

(* CouchDbClient.bulk_insert: one POST to _bulk_docs; only the status of   *)
(* the response is looked at, the per-document results in its body are not. *)
CouchBulkInsert(status, f) ==
    /\ At("couchdb", "Prepared")
    /\ status \in {201, 500, TimedOut}
    /\ Called("couchdb", "bulkInsert", IdsOf(docs))
    /\ LET ids == IdsOf(docs)
           r == BatchApply(ids, f, store["couchdb"])
       IN IF status = TimedOut
          THEN /\ UNCHANGED store
               /\ AfterInsert("couchdb",
                      [NoInsert EXCEPT !.called = TRUE, !.attempted = SeqRange(ids),
                                       !.returned = "raised"],
                      [kind |-> "Timeout", engine |-> "couchdb", op |-> "bulkInsert",
                       status |-> 0, ids |-> {}])
          ELSE IF raise_for_status(status)
          THEN /\ UNCHANGED store
               /\ AfterInsert("couchdb",
                      [NoInsert EXCEPT !.called = TRUE, !.attempted = SeqRange(ids),
                                       !.rejected = SeqRange(ids), !.returned = "raised"],
                      [kind |-> "HTTPError", engine |-> "couchdb", op |-> "bulkInsert",
                       status |-> status, ids |-> {}])
          ELSE /\ store' = [store EXCEPT !["couchdb"] = r.store]
               /\ AfterInsert("couchdb",
                      [called |-> TRUE, attempted |-> SeqRange(ids),
                       rejected |-> r.rejected, lost |-> r.lost,
                       returned |-> "ok", named |-> {}],
                      NoExc)
    /\ UNCHANGED <<args, docs, dbExists, readRep, BenchRest>>

(* bulk_read of engine e, then lines 160-161 / 169-170 / 178-179 of        *)
(* run_engine_bench and lines 224-228 of main: the result is built and     *)
(* appended, the loop goes to the next engine.                             *)
BulkRead(e, fault) ==
    /\ At(e, "Inserted")
    /\ fault \in ReadFaults(Len(docs))
    /\ Called(e, "bulkRead", IdsOf(docs))
    /\ LET r == bulk_read(e, IdsOf(docs), fault, store[e])
       IN /\ readRep' = [readRep EXCEPT ![e] = r]
          /\ IF r.returned = "raised"
             THEN Propagate([kind |-> r.kind, engine |-> e, op |-> "bulkRead",
                             status |-> r.status, ids |-> {}])
             ELSE /\ phase' = [phase EXCEPT ![e] = "Read"]
                  /\ all_results' = Append(all_results, [engine |-> e, n |-> Len(docs)])
                  /\ engIdx' = engIdx + 1
                  /\ UNCHANGED <<pc, raised, csv>>
    /\ UNCHANGED <<args, docs, dbExists, store, insertRep, BenchRest>>

PeaceBulkRead(fault) == BulkRead("peacedb", fault)
MongoBulkRead(fault) == BulkRead("mongo", fault)
CouchBulkRead(fault) == BulkRead("couchdb", fault)

(* main, lines 230-231: save_results_csv after the loop.                   *)
SaveResultsCsv ==
    /\ pc = "loop"
    /\ engIdx = Len(Engines) + 1
    /\ csv' = all_results
    /\ pc' = "done"
    /\ UNCHANGED <<args, docs, engIdx, phase, dbExists, store, insertRep, readRep,
                   raised, all_results, calls, BenchRest>>

NextBench ==
    \/ MainStart
    \/ \E status \in PutOutcomes(TRUE) : PeaceCreateDb(status)
    \/ \E f \in [1..Len(docs) -> InsertOutcomes] : PeaceBulkInsert(f)
    \/ \E fault \in ReadFaults(Len(docs)) : PeaceBulkRead(fault)
    \/ \E up \in BOOLEAN : MongoPrepare(up)
    \/ \E up \in BOOLEAN, f \in [1..Len(docs) -> BatchOutcomes] : MongoBulkInsert(up, f)
    \/ \E fault \in ReadFaults(Len(docs)) : MongoBulkRead(fault)
    \/ \E status \in PutOutcomes(TRUE) : CouchCreateDb(status)
    \/ \E status \in {201, 500, TimedOut}, f \in [1..Len(docs) -> BatchOutcomes] :
          CouchBulkInsert(status, f)
    \/ \E fault \in ReadFaults(Len(docs)) : CouchBulkRead(fault)
    \/ SaveResultsCsv

InitBench == GenIdle /\ BenchInit /\ AggIdle /\ RunnerIdle /\ CliIdle /\ IngestIdle

SpecBench == InitBench /\ [][NextBench]_vars

------------------------------------------------------------------------------
(* Properties of the sweep (SpecBench).                                    *)

Ran(e) == \E k \in 1..Len(calls) : calls[k].engine = e /\ calls[k].op = "prepare"
Reported(rows) == {rows[k].engine : k \in 1..Len(rows)}

(* C3: when a phase of one engine fails, the run still ends with every     *)
(* engine run and with the results of exactly the engines that did not     *)
(* fail written out: the failure of one engine never aborts the sweep.     *)
C3_FailureIsolated ==
    pc \in {"done", "crashed"} =>
        /\ \A e \in EngineSet : Ran(e)
        /\ csv # NotWritten
        /\ Reported(csv) = {e \in EngineSet : phase[e] = "Read"}

(* C9: when the backend rejects documents of a bulk_insert call, the call  *)
(* fails and its error names every rejected id; the call never returns     *)
(* success with a rejected document, and every document of the call was    *)
(* handed to the backend, also the ones after a rejected one.              *)
C9_RejectedReported ==
    \A e \in EngineSet :
        (insertRep[e].called /\ insertRep[e].rejected # {}) =>
            /\ insertRep[e].returned = "raised"
            /\ insertRep[e].rejected \subseteq insertRep[e].named
            /\ insertRep[e].attempted = SeqRange(IdsOf(docs))

(* C10: when bulk_read asks for an id the backend does not hold, the call  *)
(* fails with an error that is not a timeout, and the engine gets no       *)
(* result row (no read timing).                                            *)
C10_MissSurfaced ==
    \A e \in EngineSet :
        (readRep[e].called /\ readRep[e].missed # {}) =>
            /\ readRep[e].returned = "raised"
            /\ readRep[e].kind # "Timeout"
            /\ e \notin Reported(all_results)

(* C11: after the prepare step of an engine has returned successfully its  *)
(* namespace holds no document of an earlier trial or run: the timed       *)
(* bulk_insert starts from an empty namespace.                             *)
C11_PreparedEmpty ==
    \A e \in EngineSet : phase[e] = "Prepared" => store[e] = {}

(* C12: PeaceDbClient.create_db treats the answers 201, 202 and 412 to     *)
(* PUT /v1/db/{db} as success: none of them makes the prepare step fail,   *)
(* whether the database existed before or not.                             *)
C12_CreateIdempotent ==
    ~(/\ raised.engine = "peacedb"
      /\ raised.op = "prepare"
      /\ raised.status \in {201, 202, 412})

(* C14: the adapter calls are made in the order prepare, bulkInsert,       *)
(* bulkRead, each once per engine and engine after engine in the order of  *)
(* engines; bulkInsert gets the documents and bulkRead their ids in the    *)
(* same order; the phase of an engine is the number of its calls that      *)
(* returned, so no phase is skipped or gone back to.                       *)
DocIdsInOrder == [k \in 1..Len(docs) |-> docs[k].id]

ExpectedCalls ==
    [k \in 1..(3 * Len(Engines)) |->
        [engine |-> Engines[((k - 1) \div 3) + 1],
         op     |-> <<"prepare", "bulkInsert", "bulkRead">>[((k - 1) % 3) + 1],
         ids    |-> IF (k - 1) % 3 = 0 THEN <<>> ELSE DocIdsInOrder]]

CallsOf(e) == Cardinality({k \in 1..Len(calls) : calls[k].engine = e})

PhaseRank(ph) ==
    CASE ph = "Unprepared" -> 0 [] ph = "Prepared" -> 1 [] ph = "Inserted" -> 2 [] ph = "Read" -> 3

C14_CallOrder ==
    /\ Len(calls) <= 3 * Len(Engines)
    /\ \A k \in 1..Len(calls) : calls[k] = ExpectedCalls[k]
    /\ \A e \in EngineSet :
          IF raised.engine = e THEN CallsOf(e) = PhaseRank(phase[e]) + 1
          ELSE CallsOf(e) = PhaseRank(phase[e])
    /\ pc = "done" => Len(calls) = 3 * Len(Engines)

C14_Witness ==
    /\ pc = "done"
    /\ Len(docs) >= 2
    /\ Len(calls) = 9
    /\ calls[9] = [engine |-> "couchdb", op |-> "bulkRead", ids |-> DocIdsInOrder]
    /\ \A e \in EngineSet : phase[e] = "Read"

------------------------------------------------------------------------------
(* Specifications of the aggregation.                                      *)

(* One more record in the results list of the response.                    *)
Respond(r) ==
    /\ ~aggOut.ran
    /\ Len(results) < MaxResults
    /\ results' = Append(results, r)
    /\ UNCHANGED <<aggOut, AggRest>>

(* _aggregate_results(results)                                             *)
Aggregate ==
    /\ ~aggOut.ran
    /\ aggOut' = _aggregate_results(results) @@ [ran |-> TRUE]
    /\ UNCHANGED <<results, AggRest>>

InitAgg == GenIdle /\ BenchIdle /\ AggIdle /\ RunnerIdle /\ CliIdle /\ IngestIdle

NextAgg ==
    \/ \E r \in StatRecords : Respond(r)
    \/ Aggregate

SpecAgg == InitAgg /\ [][NextAgg]_vars

NextOrder ==
    \/ \E r \in OrderRecords : Respond(r)
    \/ Aggregate

SpecOrder == InitAgg /\ [][NextOrder]_vars

------------------------------------------------------------------------------
(* Specification of a bench run of bench_runner.py.                        *)

(* run_bench: the request with scales, warmup and iterations is posted.    *)
RunBench(scales, w, k) ==
    /\ runner.pc = "start"
    /\ runner' = [runner EXCEPT !.pc = "posted", !.scales = scales, !.warmup = w,
                                !.iterations = k]
    /\ UNCHANGED <<trialLog, results, aggOut, RunnerRest>>

(* The server runs the next trial of the matrix scale x format x trial:    *)
(* warmup + iterations trials per combination, of which the trials with    *)
(* an index below warmup are run but not put into the response.            *)
ServerTrial(v) ==
    /\ runner.pc = "posted"
    /\ runner.si <= Len(runner.scales)
    /\ runner.ti < runner.warmup + runner.iterations
    /\ v \in (IF runner.ti < runner.warmup THEN WarmupValues ELSE SampleValues)
    /\ LET fmt == ServerFormats[runner.fi]
           n == runner.scales[runner.si]
           lastTrial == runner.ti + 1 >= runner.warmup + runner.iterations
           lastFormat == runner.fi = Len(ServerFormats)
       IN /\ trialLog' = Append(trialLog,
                 [format |-> fmt, n |-> n, trialIndex |-> runner.ti,
                  isWarmup |-> runner.ti < runner.warmup, serializeMs |-> v])
          /\ results' = IF runner.ti < runner.warmup THEN results
                        ELSE Append(results,
                                 [format |-> fmt, n |-> n, serializeMs |-> v,
                                  deserializeMs |-> v, totalBytes |-> 10 * n,
                                  avgBytesPerDoc |-> 10])
          /\ runner' = [runner EXCEPT
                 !.ti = IF lastTrial THEN 0 ELSE @ + 1,
                 !.fi = IF ~lastTrial THEN @ ELSE IF lastFormat THEN 1 ELSE @ + 1,
                 !.si = IF lastTrial /\ lastFormat THEN @ + 1 ELSE @]
    /\ UNCHANGED <<aggOut, RunnerRest>>

ServerDone ==
    \/ runner.si > Len(runner.scales)
    \/ runner.warmup + runner.iterations = 0

(* The response has arrived; plot_results, lines 186-190: no results list  *)
(* raises ValueError, otherwise the results are aggregated.                *)
PlotResults ==
    /\ runner.pc = "posted"
    /\ ServerDone
    /\ IF results = <<>>
       THEN /\ runner' = [runner EXCEPT !.pc = "failed"]
            /\ UNCHANGED aggOut
       ELSE /\ runner' = [runner EXCEPT !.pc = "plotted"]
            /\ aggOut' = _aggregate_results(results) @@ [ran |-> TRUE]
    /\ UNCHANGED <<trialLog, results, RunnerRest>>

InitRunner == GenIdle /\ BenchIdle /\ AggIdle /\ RunnerInit /\ CliIdle /\ IngestIdle

NextRunner ==
    \/ \E scales \in ScaleLists, w \in 0..MaxWarmup, k \in 0..MaxIterations :
          RunBench(scales, w, k)
    \/ \E v \in SampleValues \cup WarmupValues : ServerTrial(v)
    \/ PlotResults

SpecRunner == InitRunner /\ [][NextRunner]_vars

------------------------------------------------------------------------------
(* Specifications of main of bench_runner.py.                              *)

(* Lines 247-253: --scales is parsed; a bad value prints to stderr and     *)
(* exits with code 2.                                                      *)
ParseScales ==
    /\ cli.pc = "start"
    /\ LET p == ParsedScales(argScales)
       IN cli' = IF p.ok
                 THEN [cli EXCEPT !.pc = "formats", !.scales = p.scales]
                 ELSE [cli EXCEPT !.pc = "exited", !.exitCode = 2,
                                  !.stderr = <<"Bad --scales: ", p.error>>]
    /\ UNCHANGED <<argScales, requests, files, data, csvRows, aggOut, CliRest>>

(* Line 255: get_formats sends GET /v1/bench/formats and swallows every    *)
(* failure.                                                                *)
GetFormats(answer) ==
    /\ cli.pc = "formats"
    /\ requests' = Append(requests, [method |-> "GET", path |-> "/v1/bench/formats"])
    /\ cli' = [cli EXCEPT !.pc = "run", !.fmts_from_api = get_formats(answer)]
    /\ UNCHANGED <<argScales, files, data, csvRows, aggOut, CliRest>>

(* Lines 260-269, run_bench: POST /v1/bench/run with the scales; an error  *)
(* status raises out of main, otherwise the body is the response.          *)
PostBenchRun(status, body) ==
    /\ cli.pc = "run"
    /\ requests' = Append(requests,
           [method |-> "POST", path |-> "/v1/bench/run", scales |-> cli.scales])
    /\ IF raise_for_status(status)
       THEN /\ cli' = [cli EXCEPT !.pc = "crashed", !.exitCode = 1,
                                  !.stderr = <<"HTTPError">>]
            /\ UNCHANGED data
       ELSE /\ cli' = [cli EXCEPT !.pc = "write"]
            /\ data' = body
    /\ UNCHANGED <<argScales, files, csvRows, aggOut, CliRest>>

(* Lines 272-275: the response is written to results.json.                 *)
WriteRawJson ==
    /\ cli.pc = "write"
    /\ files' = files \cup {"results.json"}
    /\ cli' = [cli EXCEPT !.pc = "csv"]
    /\ UNCHANGED <<argScales, requests, data, csvRows, aggOut, CliRest>>

(* Line 277, save_csv: nothing without a results list, otherwise one row   *)
(* per record.                                                             *)
SaveCsv ==
    /\ cli.pc = "csv"
    /\ LET rs == ResultsOf(data)
       IN IF rs = <<>>
          THEN UNCHANGED <<files, csvRows>>
          ELSE /\ files' = files \cup {"results.csv"}
               /\ csvRows' = [k \in 1..Len(rs) |-> CsvRow(rs[k])]
    /\ cli' = [cli EXCEPT !.pc = "plot"]
    /\ UNCHANGED <<argScales, requests, data, aggOut, CliRest>>

(* Line 278, plot_results: ValueError without a results list; otherwise    *)
(* the records are aggregated and the plots of one scale or of several     *)
(* scales are written. An exception leaves main.                           *)
PlotResponse ==
    /\ cli.pc = "plot"
    /\ LET rs == ResultsOf(data)
           a == _aggregate_results(rs)
           out == PlotFiles(a)
       IN IF rs = <<>>
          THEN /\ cli' = [cli EXCEPT !.pc = "crashed", !.exitCode = 1,
                            !.stderr = <<"ValueError: No results in response to plot.">>]
               /\ UNCHANGED <<files, aggOut>>
          ELSE /\ aggOut' = a @@ [ran |-> TRUE]
               /\ files' = files \cup out.written
               /\ cli' = IF out.error = ""
                         THEN [cli EXCEPT !.pc = "done", !.exitCode = 0]
                         ELSE [cli EXCEPT !.pc = "crashed", !.exitCode = 1,
                                          !.stderr = <<out.error>>]
    /\ UNCHANGED <<argScales, requests, data, csvRows, CliRest>>

InitCli == GenIdle /\ BenchIdle /\ AggIdle /\ RunnerIdle /\ CliInit /\ IngestIdle

NextCli ==
    \/ ParseScales
    \/ \E answer \in FormatAnswers : GetFormats(answer)
    \/ \E status \in RunStatuses, body \in CliResponses : PostBenchRun(status, body)
    \/ WriteRawJson
    \/ SaveCsv
    \/ PlotResponse

SpecCli == InitCli /\ [][NextCli]_vars

InitPlot == GenIdle /\ BenchIdle /\ AggIdle /\ RunnerIdle /\ PlotInit /\ IngestIdle

NextPlot ==
    \/ ParseScales
    \/ \E answer \in FormatAnswers : GetFormats(answer)
    \/ \E status \in RunStatuses, body \in PlotResponses : PostBenchRun(status, body)
    \/ WriteRawJson
    \/ SaveCsv
    \/ PlotResponse

SpecPlot == InitPlot /\ [][NextPlot]_vars

(* C13: when --scales is empty or malformed (no integer among its pieces   *)
(* between commas, or a piece that is not an integer), main ends with a    *)
(* non-zero exit code and a message, and it has sent no request (neither   *)
(* GET /v1/bench/formats nor POST /v1/bench/run) and written no file.      *)
CommaPieces(s) ==
    {SubSeq(s, a, b) : <<a, b>> \in
        {ab \in (1..Len(s)) \X (1..Len(s)) :
            /\ ab[1] <= ab[2]
            /\ (ab[1] = 1 \/ s[ab[1] - 1] = ",")
            /\ (ab[2] = Len(s) \/ s[ab[2] + 1] = ",")
            /\ \A k \in ab[1]..ab[2] : s[k] # ","}}
BlankText(p) == \A k \in 1..Len(p) : p[k] = " "
IntegerText(p) ==
    \E i, j \in 1..Len(p) :
        /\ i <= j
        /\ \A k \in 1..Len(p) : (k < i \/ k > j) => p[k] = " "
        /\ LET first == IF p[i] \in {"-", "+"} THEN i + 1 ELSE i
           IN /\ first <= j
              /\ \A k \in first..j : p[k] \in {"0", "1", "2", "3", "4", "5", "6", "7", "8", "9"}
BadScales(s) ==
    LET given == {p \in CommaPieces(s) : ~BlankText(p)}
    IN given = {} \/ \E p \in given : ~IntegerText(p)
C13_BadScalesAbort ==
    (BadScales(argScales) /\ cli.pc \notin {"idle", "start"}) =>
        /\ cli.pc = "exited"
        /\ cli.exitCode > 0
        /\ cli.stderr # <<>>
        /\ requests = <<>>
        /\ files = {}
C13_Witness ==
    /\ argScales = <<"1", ",", "x">>
    /\ cli.pc = "exited"
    /\ cli.exitCode = 2
    /\ Len(cli.stderr) = 2
    /\ requests = <<>>
    /\ files = {}

(* C16: whenever plot_results accepts a response (a non-empty results      *)
(* list under results or Results), every record save_csv wrote as a row    *)
(* is in a (format, n) bucket of the aggregation, so there is at least one *)
(* scale and one format and plot_results does not fail on the maximum of   *)
(* an empty scale list.                                                    *)
PlotAccepted == cli.pc \in {"done", "crashed"} /\ aggOut.ran
C16_RowsAggregated ==
    PlotAccepted =>
        /\ \A k \in 1..Len(csvRows) :
              \E f \in DOMAIN aggOut.buckets : \E n \in DOMAIN aggOut.buckets[f] :
                  /\ FmtOf(ResultsOf(data)[k]) = f
                  /\ NOf(ResultsOf(data)[k]) = n
        /\ aggOut.scales_sorted # <<>>
        /\ aggOut.formats_sorted # <<>>
        /\ cli.stderr # <<"ValueError: max() arg is an empty sequence">>

------------------------------------------------------------------------------
(* Specification of the ingestion of a dataset file.                       *)

(* iter_records, lines 23-37: the whole-file parse; a list or an object    *)
(* ends the function, anything else goes on to the line loop.              *)
WholeFileParse ==
    /\ reader.pc = "start"
    /\ LET fast == FastPath(fileLines)
       IN /\ yielded' = [j \in 1..Len(fast.items) |-> [line |-> 0, obj |-> fast.items[j]]]
          /\ reader' = IF fast.returns THEN [pc |-> "done", k |-> 0]
                       ELSE [pc |-> "lines", k |-> 1]
    /\ UNCHANGED <<fileLines, conv, IngestRest>>

(* iter_records, lines 40-60: one turn of the line loop.                   *)
ReadLine ==
    /\ reader.pc = "lines"
    /\ reader.k <= Len(fileLines)
    /\ LET step == LineStep(fileLines[reader.k] \o <<"\n">>)
       IN IF step.does = "yield"
          THEN /\ yielded' = Append(yielded, [line |-> reader.k, obj |-> step.obj])
               /\ reader' = [reader EXCEPT !.k = @ + 1]
          ELSE /\ yielded' = yielded
               /\ reader' = [reader EXCEPT !.k = Continue(@, Len(fileLines))]
    /\ UNCHANGED <<fileLines, conv, IngestRest>>

(* The file is exhausted: the generator ends.                              *)
EndOfLines ==
    /\ reader.pc = "lines"
    /\ reader.k > Len(fileLines)
    /\ reader' = [reader EXCEPT !.pc = "done"]
    /\ UNCHANGED <<fileLines, yielded, conv, IngestRest>>

(* convert.py, lines 9-17: one turn of the loop.                           *)
ConvertLine ==
    /\ conv.pc = "loop"
    /\ conv.k <= Len(fileLines)
    /\ LET step == ConvertStep(fileLines[conv.k] \o <<"\n">>)
       IN conv' = [conv EXCEPT
              !.k = @ + 1,
              !.data = IF step.does = "append"
                       THEN Append(@, [line |-> conv.k, obj |-> step.obj]) ELSE @,
              !.warnings = IF step.does = "warn" THEN @ + 1 ELSE @]
    /\ UNCHANGED <<fileLines, reader, yielded, IngestRest>>

(* convert.py, lines 19-20: data is written out.                           *)
ConvertDump ==
    /\ conv.pc = "loop"
    /\ conv.k > Len(fileLines)
    /\ conv' = [conv EXCEPT !.pc = "written"]
    /\ UNCHANGED <<fileLines, reader, yielded, IngestRest>>

InitIngest == GenIdle /\ BenchIdle /\ AggIdle /\ RunnerIdle /\ CliIdle /\ IngestInit

NextIngest ==
    \/ WholeFileParse
    \/ ReadLine
    \/ EndOfLines
    \/ ConvertLine
    \/ ConvertDump

SpecIngest == InitIngest /\ [][NextIngest]_vars

(* The lines the loop of iter_records is done with, and how often a line   *)
(* occurs in a list of records.                                            *)
LineModeOn == reader.pc \in {"lines", "done"} /\ reader.k >= 1
TimesIn(out, i) == Cardinality({j \in 1..Len(out) : out[j].line = i})
InFileOrder(out) == \A a, b \in 1..Len(out) : a < b => out[a].line < out[b].line
ObjectLine(l) == json_loads(l).ok /\ json_loads(l).val.kind = "dict"
EmptyLine(l) == \A k \in 1..Len(l) : IsSpace(l[k])
MalformedLine(l) == ~EmptyLine(l) /\ ~json_loads(l).ok

(* C15: in line mode every line that is a well-formed JSON object is       *)
(* yielded exactly once and in file order, every malformed or empty line   *)
(* is skipped, and the stream goes on to the end of the file.              *)
C15_LinesYielded ==
    /\ LineModeOn =>
          /\ \A i \in 1..(reader.k - 1) :
                /\ ObjectLine(fileLines[i]) => TimesIn(yielded, i) = 1
                /\ (MalformedLine(fileLines[i]) \/ EmptyLine(fileLines[i]))
                       => TimesIn(yielded, i) = 0
          /\ InFileOrder(yielded)
          /\ reader.pc = "done" => reader.k = Len(fileLines) + 1
    /\ /\ \A i \in 1..(conv.k - 1) :
             /\ ObjectLine(fileLines[i]) => TimesIn(conv.data, i) = 1
             /\ (MalformedLine(fileLines[i]) \/ EmptyLine(fileLines[i]))
                    => TimesIn(conv.data, i) = 0
       /\ InFileOrder(conv.data)
       /\ conv.pc = "written" => conv.k = Len(fileLines) + 1

(* C15 as amended: in line mode iter_records yields a line exactly once    *)
(* and in file order when its text from the first { to the last } is a     *)
(* well-formed JSON object (the line itself, or a line with other text     *)
(* around the object), and skips every other line; convert.py keeps a      *)
(* line exactly once and in file order when it is well-formed JSON and     *)
(* skips every other line; neither stops before the end of the file.       *)
BraceSpan(l) ==
    LET opens == {i \in 1..Len(l) : l[i] = "{"}
        closes == {i \in 1..Len(l) : l[i] = "}"}
        first == CHOOSE i \in opens : \A j \in opens : i <= j
        last == CHOOSE i \in closes : \A j \in closes : j <= i
    IN IF opens = {} \/ closes = {} THEN <<>>
       ELSE IF last < first THEN <<>>
       ELSE SubSeq(l, first, last)
SpanObject(l) == BraceSpan(l) # <<>> /\ json_loads(BraceSpan(l)).ok
C15_SpanYielded ==
    /\ LineModeOn =>
          /\ \A i \in 1..(reader.k - 1) :
                TimesIn(yielded, i) = IF SpanObject(fileLines[i]) THEN 1 ELSE 0
          /\ \A j \in 1..Len(yielded) :
                yielded[j].obj = json_loads(BraceSpan(fileLines[yielded[j].line])).val
          /\ InFileOrder(yielded)
          /\ reader.pc = "done" => reader.k = Len(fileLines) + 1
    /\ /\ \A i \in 1..(conv.k - 1) :
             TimesIn(conv.data, i) = IF json_loads(fileLines[i]).ok THEN 1 ELSE 0
       /\ InFileOrder(conv.data)
       /\ conv.pc = "written" => conv.k = Len(fileLines) + 1
C15_Witness ==
    /\ Len(fileLines) = 2
    /\ fileLines[1] = <<"{", "m">>
    /\ fileLines[2] = <<"x", "{", "m", "}", "x">>
    /\ reader = [pc |-> "done", k |-> 3]
    /\ yielded = <<[line |-> 2, obj |-> [kind |-> "dict", members |-> 1]]>>
    /\ conv.pc = "written"
    /\ conv.warnings = 2

------------------------------------------------------------------------------
(* Properties of the aggregation (SpecAgg, SpecOrder, SpecRunner).         *)

(* The bucket key of a record and the values of one metric of the records  *)
(* of one bucket, read off the records.                                    *)
HasFormat(r) == "format" \in DOMAIN r /\ Lower(r.format) # ""
KeyOf(r) == <<Lower(r.format), IF "n" \in DOMAIN r THEN r.n ELSE 0>>

ValuesOf(rs, f, n, m) ==
    LET sel == SelectSeq(rs, LAMBDA r : HasFormat(r) /\ KeyOf(r) = <<f, n>> /\ m \in DOMAIN r)
    IN [i \in 1..Len(sel) |-> sel[i][m]]

RECURSIVE SumDevSq(_, _)
SumDevSq(vals, mean) ==
    IF vals = <<>> THEN 0
    ELSE (Head(vals) * mean.den - mean.num) * (Head(vals) * mean.den - mean.num)
         + SumDevSq(Tail(vals), mean)

IsMeanOf(q, vals) == q.num * Len(vals) = Sum(vals) * q.den

SquareOf(sd) ==
    IF "surd" \in DOMAIN sd THEN sd.surd ELSE [num |-> sd.num * sd.num, den |-> sd.den * sd.den]

(* sd * sd = (sum of (x - mean)^2) / count                                 *)
IsPopulationStd(sd, mean, vals) ==
    SquareOf(sd).num * mean.den * mean.den * Len(vals) = SquareOf(sd).den * SumDevSq(vals, mean)

AggKeys == UNION {{<<f, n>> : n \in DOMAIN aggOut.agg[f]} : f \in DOMAIN aggOut.agg}

(* C5: every (format, n) bucket holds, per metric, the arithmetic mean and *)
(* the population standard deviation of exactly the values of the records  *)
(* with this format (lower-cased) and n; one sample gives mean = sample    *)
(* and std = 0; the samples 10, 12 give mean 11 and std 1.                 *)
C5_MeanStd ==
    aggOut.ran =>
        /\ AggKeys = {KeyOf(results[i]) : i \in {j \in 1..Len(results) : HasFormat(results[j])}}
        /\ \A key \in AggKeys, m \in Metrics :
              LET vals == ValuesOf(results, key[1], key[2], m)
                  a == aggOut.agg[key[1]][key[2]][m]
              IN /\ vals # <<>> =>
                        /\ IsMeanOf(a.mean, vals)
                        /\ IsPopulationStd(a.std, a.mean, vals)
                 /\ Len(vals) = 1 => a = [mean |-> Rat(vals[1], 1), std |-> Rat(0, 1)]
                 /\ vals = <<10, 12>> => a = [mean |-> Rat(11, 1), std |-> Rat(1, 1)]

C5_Witness ==
    /\ aggOut.ran
    /\ <<"json", 1>> \in AggKeys /\ <<"binary", 1>> \in AggKeys
    /\ ValuesOf(results, "json", 1, "serializeMs") = <<10, 12>>
    /\ aggOut.agg["json"][1]["serializeMs"] = [mean |-> Rat(11, 1), std |-> Rat(1, 1)]
    /\ Len(ValuesOf(results, "binary", 1, "serializeMs")) = 1
    /\ aggOut.agg["binary"][1]["serializeMs"].std = Rat(0, 1)

(* C6: the report order of the formats is: the preferred formats that are  *)
(* present, in the order of the preference list, then the other present    *)
(* formats in alphabetical order; every present format exactly once, no    *)
(* absent one, whatever the order of the records (json, binary and the     *)
(* unlisted avro give json, binary, avro).                                 *)
Alphabet == <<"avro", "binary", "json", "msgpack", "protobuf">>
IndexIn(sq, x) == CHOOSE i \in 1..Len(sq) : sq[i] = x
PresentFormats == {Lower(results[i].format) : i \in {j \in 1..Len(results) : HasFormat(results[j])}}

ReportedBefore(a, b) ==
    IF a \in SeqRange(preferred)
    THEN b \in SeqRange(preferred) => IndexIn(preferred, a) < IndexIn(preferred, b)
    ELSE b \notin SeqRange(preferred) /\ IndexIn(Alphabet, a) < IndexIn(Alphabet, b)

C6_ReportOrder ==
    aggOut.ran =>
        LET fs == aggOut.formats_sorted
        IN /\ SeqRange(fs) = PresentFormats
           /\ Len(fs) = Cardinality(PresentFormats)
           /\ \A i, j \in 1..Len(fs) : i < j => ReportedBefore(fs[i], fs[j])
           /\ PresentFormats = {"json", "binary", "avro"} => fs = <<"json", "binary", "avro">>

C6_Witness ==
    /\ aggOut.ran
    /\ Len(results) = 3
    /\ results[1].format = "avro" /\ results[2].format = "binary" /\ results[3].format = "JSON"
    /\ aggOut.formats_sorted = <<"json", "binary", "avro">>

(* C4: with warmup w and iterations k every (format, scale) combination    *)
(* runs w + k trials, and its bucket holds exactly the samples of the k    *)
(* trials with trialIndex >= w, in order: no sample of a warmup trial.     *)
TrialsOf(f, n) == SelectSeq(trialLog, LAMBDA t : t.format = f /\ t.n = n)
MeasuredOf(f, n) ==
    LET sel == SelectSeq(trialLog, LAMBDA t : t.format = f /\ t.n = n /\ t.trialIndex >= runner.warmup)
    IN [i \in 1..Len(sel) |-> sel[i].serializeMs]

====
